---- MODULE Spec2Model ----
(***************************************************************************)
(* Model of scripts/irrigation_scheduling.py: the monthly-to-daily         *)
(* interpolation (interpolate_monthly_to_daily) and the daily soil-water   *)
(* balance loop (daily_irrigation_schedule).                               *)
(*                                                                         *)
(* Numbers.  The program computes with floats.  The model computes with    *)
(* exact rationals:                                                        *)
(*   - a value produced by np.linspace is a pair [num, den], the rational  *)
(*     num / den, with den the number of samples of its segment;           *)
(*   - inside the water balance every quantity in millimetres is an        *)
(*     integer count of 1/UnitsPerMm mm.  UnitsPerMm is a multiple of the  *)
(*     segment lengths of the seasons simulated, of the kc denominator and *)
(*     of 1000, so products, sums and the threshold are exact;             *)
(*   - round(x, 2) rounds to the nearest hundredth, ties to even.          *)
(* Floating-point representation error is not modelled.                    *)
(***************************************************************************)
EXTENDS Integers, Sequences, FiniteSets, TLC

VARIABLES
    \* ---- daily_irrigation_schedule: arguments -------------------------
    soil,               \* [field_capacity, wilting_point] in 1/100, [root_depth] in 1/10 m
    growth_stages,      \* crop['growth_stages'] in declared order: <<[name, kc, days]>>, kc in halves
    climate_etr,        \* climate['ETr']: monthly values, whole mm/day
    rainfall_data,      \* monthly rainfall values, whole mm
    season_months,      \* list of month numbers
    \* ---- daily_irrigation_schedule: locals ----------------------------
    pc,                 \* "start" | "stage" | "day" | "decide" | "done" | "failed"
    schedule,           \* list of daily records appended so far
    daily_etr,          \* interpolated daily ETr, in units
    daily_rainfall,     \* interpolated daily rainfall, in units
    day_count,
    cumulative_soil_water_deficit,
    max_allowable_depletion,
    stage_idx,          \* position of the outer for loop in growth_stages
    day,                \* position of the inner for loop, range(days)
    daily_climate,      \* the day's [ETr, Rainfall] read from the daily series
    error,              \* exception that ended the call, "" if none
    returned,           \* the value handed to the caller (pc = "done")
    \* ---- interpolate_monthly_to_daily called on its own ---------------
    i_months,           \* season_months argument
    i_data,             \* monthly_data argument
    i_pc,               \* "idle" | "call" | "returned"
    i_result            \* [status, data]: data is the returned daily_data

sched_vars == <<soil, growth_stages, climate_etr, rainfall_data, season_months,
                pc, schedule, daily_etr, daily_rainfall, day_count,
                cumulative_soil_water_deficit, max_allowable_depletion,
                stage_idx, day, daily_climate, error, returned>>
interp_vars == <<i_months, i_data, i_pc, i_result>>
vars == <<sched_vars, interp_vars>>

-----------------------------------------------------------------------------
(* Bounds and resolutions *)

MaxMonths == 2          \* longest season_months list given to the interpolator alone
MaxStages == 2          \* most growth stages of a crop
LongStage == 31         \* the long stage length (a whole month)
MaxRain == 3            \* largest monthly rainfall value, mm

UnitsPerMm == 100 * 30 * 31         \* hundredths of a mm, split for 30- and 31-sample segments
UnitsPerCent == UnitsPerMm \div 100 \* units in 0.01 mm

-----------------------------------------------------------------------------
(* Calendar of the reference year 2024 used by datetime.date(2024, m, 1) *)

MonthLength == <<31, 29, 31, 30, 31, 30, 31, 31, 30, 31, 30, 31>>

RECURSIVE DayOfYear(_)
\* days from January 1 to the first day of month m
DayOfYear(m) == IF m = 1 THEN 0 ELSE DayOfYear(m - 1) + MonthLength[m - 1]

\* (date(2024, m2, 1) - date(2024, m1, 1)).days
DaysBetweenFirsts(m1, m2) == DayOfYear(m2) - DayOfYear(m1)

\* (date(2024, 12, 31) - date(2024, m, 1)).days + 1
DaysToYearEnd(m) == (DayOfYear(12) + 30 - DayOfYear(m)) + 1

-----------------------------------------------------------------------------
(* np.linspace(start, end, n, endpoint=False) *)

LinspaceClosed(start, end, n) ==
    [k \in 1..n |-> [num |-> start * (n - 1) + (k - 1) * (end - start), den |-> n - 1]]

\* n samples start + k * (end - start) / n, k = 0..n-1, as rationals over n
Linspace(start, end, n) ==
    [k \in 1..n |-> [num |-> start * n + (k - 1) * (end - start), den |-> n]]

SegmentDaysNextMonth(m1, m2) == DaysBetweenFirsts(m1, m2) + 1

\* days_in_month of the segment for the month pair (m1, m2), line 39
SegmentDays(m1, m2) == DaysBetweenFirsts(m1, m2)

Failure(kind) == [status |-> kind, data |-> <<>>]

RECURSIVE InterpolateFrom(_, _, _, _)
\* the for loop of lines 35-42 from iteration i on (1-based), then lines 44-49
InterpolateFrom(monthly_data, months, i, daily_data) ==
    IF i <= Len(months) - 1
    THEN IF Len(monthly_data) < i + 1
         THEN Failure("IndexError")                       \* monthly_data[i + 1]
         ELSE LET n == SegmentDays(months[i], months[i + 1]) IN
              IF n < 0
              THEN Failure("ValueError")                  \* linspace: negative sample count
              ELSE InterpolateFrom(monthly_data, months, i + 1,
                       daily_data \o Linspace(monthly_data[i], monthly_data[i + 1], n))
    ELSE IF Len(monthly_data) = 0 \/ Len(months) = 0
         THEN Failure("IndexError")                       \* monthly_data[-1], season_months[-1]
         ELSE LET n == DaysToYearEnd(months[Len(months)]) IN
              [status |-> "ok",
               data |-> daily_data \o
                        Linspace(monthly_data[Len(monthly_data)], monthly_data[1], n)]

interpolate_monthly_to_daily(monthly_data, months) ==
    InterpolateFrom(monthly_data, months, 1, <<>>)

-----------------------------------------------------------------------------
(* Arithmetic of the water balance *)

\* a linspace sample as a count of units
ToUnits(r) == r.num * (UnitsPerMm \div r.den)

SeriesToUnits(s) == [k \in 1..Len(s) |-> ToUnits(s[k])]

\* round(x, 2): nearest hundredth, ties to the even hundredth; result in units
Round2(x) ==
    LET q == x \div UnitsPerCent
        r == x % UnitsPerCent
        up == \/ 2 * r > UnitsPerCent
              \/ 2 * r = UnitsPerCent /\ q % 2 = 1
    IN (IF up THEN q + 1 ELSE q) * UnitsPerCent

\* calculate_et: etr * crop_kc, crop_kc counted in halves
calculate_et(crop_kc, etr) == (etr * crop_kc) \div 2

EffectiveRainfallUnclamped(rain) == rain

\* max(Rainfall - 0, 0)
EffectiveRainfall(rain) == IF rain - 0 > 0 THEN rain - 0 ELSE 0

SoilWaterDeficitFlipped(effective_rainfall, etc) == etc - effective_rainfall

\* soil_water_deficit = effective_rainfall - etc
SoilWaterDeficit(effective_rainfall, etc) == effective_rainfall - etc

AccumulateOverwrite(cum, deficit) == deficit

\* cumulative_soil_water_deficit += soil_water_deficit
Accumulate(cum, deficit) == cum + deficit

\* 0.7 * (field_capacity - wilting_point) * root_depth * 10, in units
MaxAllowableDepletion(s) ==
    7 * (s.field_capacity - s.wilting_point) * s.root_depth * (UnitsPerMm \div 1000)

\* if cumulative_soil_water_deficit > max_allowable_depletion
IrrigationNeeded(cum, mad) == cum > mad

DeficitAfterDecisionNoReset(cum, mad) == cum

\* the accumulator after the if/else of lines 100-108
DeficitAfterDecision(cum, mad) == IF IrrigationNeeded(cum, mad) THEN 0 ELSE cum

DailyIrrigationReqDeficit(cum, mad) == IF cum > mad THEN cum ELSE 0

\* daily_irrigation_req after the if/else of lines 100-108
DailyIrrigationReq(cum, mad) == IF IrrigationNeeded(cum, mad) THEN mad ELSE 0

NextDayCountRestart(dc, d) == d + 2

\* day_count += 1
NextDayCount(dc, d) == dc + 1

ListGetDefaulting(list, idx) ==
    IF idx < Len(list) THEN [ok |-> TRUE, val |-> list[idx + 1]]
                       ELSE [ok |-> TRUE, val |-> 0]

\* list[idx] for a 0-based idx >= 0: IndexError past the end
ListGet(list, idx) ==
    IF idx < Len(list) THEN [ok |-> TRUE, val |-> list[idx + 1]]
                       ELSE [ok |-> FALSE, val |-> 0]

-----------------------------------------------------------------------------
(* Inputs *)

\* keys of crop['growth_stages'] in insertion order
StageNames == <<"initial", "development", "mid-season", "late-season">>

StageDays == {1, LongStage}
KcValues == {1, 2}                   \* 0.5 and 1.0

Crops ==
    UNION {[1..n -> [kc : KcValues, days : StageDays]] : n \in 1..MaxStages}

NamedStages(c) == [j \in 1..Len(c) |-> [name |-> StageNames[j], kc |-> c[j].kc, days |-> c[j].days]]

Soils == {[field_capacity |-> 30, wilting_point |-> 15, root_depth |-> 10],
          [field_capacity |-> 31, wilting_point |-> 15, root_depth |-> 14],
          [field_capacity |-> 15, wilting_point |-> 30, root_depth |-> 10]}

Seasons == {<<11, 12>>, <<12>>, <<12, 11>>}

EtrValues == {1, 2}
RainValues == {-1, 0, MaxRain}

NoResult == [status |-> "none", data |-> <<>>]
NoClimate == [ETr |-> 0, Rainfall |-> 0]

-----------------------------------------------------------------------------
(* daily_irrigation_schedule *)

Init ==
    /\ soil \in Soils
    /\ growth_stages \in {NamedStages(c) : c \in Crops}
    /\ season_months \in Seasons
    /\ climate_etr \in [1..Len(season_months) -> EtrValues]
    /\ rainfall_data \in [1..Len(season_months) -> RainValues]
    /\ pc = "start"
    /\ schedule = <<>>
    /\ daily_etr = <<>>
    /\ daily_rainfall = <<>>
    /\ day_count = 0
    /\ cumulative_soil_water_deficit = 0
    /\ max_allowable_depletion = 0
    /\ stage_idx = 0
    /\ day = 0
    /\ daily_climate = NoClimate
    /\ error = ""
    /\ returned = <<>>
    /\ i_months = <<>>
    /\ i_data = <<>>
    /\ i_pc = "idle"
    /\ i_result = NoResult

\* lines 66-73: interpolate both series, initialise the counters and the threshold
Setup ==
    /\ pc = "start"
    /\ LET e == interpolate_monthly_to_daily(climate_etr, season_months)
           r == interpolate_monthly_to_daily(rainfall_data, season_months)
       IN IF e.status # "ok"
          THEN /\ pc' = "failed"
               /\ error' = e.status
               /\ UNCHANGED <<daily_etr, daily_rainfall, day_count, max_allowable_depletion>>
          ELSE IF r.status # "ok"
          THEN /\ pc' = "failed"
               /\ error' = r.status
               /\ UNCHANGED <<daily_etr, daily_rainfall, day_count, max_allowable_depletion>>
          ELSE /\ pc' = "stage"
               /\ daily_etr' = SeriesToUnits(e.data)
               /\ daily_rainfall' = SeriesToUnits(r.data)
               /\ day_count' = 1
               /\ max_allowable_depletion' = MaxAllowableDepletion(soil)
               /\ UNCHANGED error
    /\ cumulative_soil_water_deficit' = 0
    /\ schedule' = <<>>
    /\ UNCHANGED <<soil, growth_stages, climate_etr, rainfall_data, season_months,
                   stage_idx, day, daily_climate, returned, interp_vars>>

\* lines 76-78: the outer loop takes the next growth stage
EnterStage ==
    /\ pc = "stage"
    /\ stage_idx < Len(growth_stages)
    /\ stage_idx' = stage_idx + 1
    /\ day' = 0
    /\ pc' = "day"
    /\ UNCHANGED <<soil, growth_stages, climate_etr, rainfall_data, season_months,
                   schedule, daily_etr, daily_rainfall, day_count,
                   cumulative_soil_water_deficit, max_allowable_depletion,
                   daily_climate, error, returned, interp_vars>>

\* line 81: range(days) is exhausted
ExitStage ==
    /\ pc = "day"
    /\ day >= growth_stages[stage_idx].days
    /\ pc' = "stage"
    /\ UNCHANGED <<soil, growth_stages, climate_etr, rainfall_data, season_months,
                   schedule, daily_etr, daily_rainfall, day_count,
                   cumulative_soil_water_deficit, max_allowable_depletion,
                   stage_idx, day, daily_climate, error, returned, interp_vars>>

\* lines 81-97: read the day's climate and add its balance to the accumulator
ReadDay ==
    /\ pc = "day"
    /\ day < growth_stages[stage_idx].days
    /\ LET e == ListGet(daily_etr, day_count - 1)
           r == ListGet(daily_rainfall, day_count - 1)
       IN IF ~e.ok \/ ~r.ok
          THEN /\ pc' = "failed"
               /\ error' = "IndexError"
               /\ UNCHANGED <<cumulative_soil_water_deficit, daily_climate>>
          ELSE LET etc == calculate_et(growth_stages[stage_idx].kc, e.val)
                   effective_rainfall == EffectiveRainfall(r.val)
                   soil_water_deficit == SoilWaterDeficit(effective_rainfall, etc)
               IN /\ daily_climate' = [ETr |-> e.val, Rainfall |-> r.val]
                  /\ cumulative_soil_water_deficit' =
                         Accumulate(cumulative_soil_water_deficit, soil_water_deficit)
                  /\ pc' = "decide"
                  /\ UNCHANGED error
    /\ UNCHANGED <<soil, growth_stages, climate_etr, rainfall_data, season_months,
                   schedule, daily_etr, daily_rainfall, day_count,
                   max_allowable_depletion, stage_idx, day, returned, interp_vars>>

\* lines 100-124: decide, append the record, advance the day
Decide ==
    /\ pc = "decide"
    /\ LET kc == growth_stages[stage_idx].kc
           etr == daily_climate.ETr
           rain == daily_climate.Rainfall
           cum == cumulative_soil_water_deficit
           mad == max_allowable_depletion
           irrigation_required == IrrigationNeeded(cum, mad)
           after == DeficitAfterDecision(cum, mad)
       IN /\ cumulative_soil_water_deficit' = after
          /\ schedule' = Append(schedule,
                [day |-> day_count,
                 growth_stage |-> growth_stages[stage_idx].name,
                 kc |-> kc,
                 ETo |-> etr,
                 ETc |-> calculate_et(kc, etr),
                 Rainfall |-> rain,
                 NetIrrigation |-> Round2(DailyIrrigationReq(cum, mad)),
                 CumulativeDeficit |-> Round2(after),
                 IrrigationRequired |-> IF irrigation_required THEN "Yes" ELSE "No"])
    /\ day_count' = NextDayCount(day_count, day)
    /\ day' = day + 1
    /\ pc' = "day"
    /\ UNCHANGED <<soil, growth_stages, climate_etr, rainfall_data, season_months,
                   daily_etr, daily_rainfall, max_allowable_depletion,
                   stage_idx, daily_climate, error, returned, interp_vars>>

\* line 125: return schedule
Return ==
    /\ pc = "stage"
    /\ stage_idx >= Len(growth_stages)
    /\ pc' = "done"
    /\ returned' = schedule
    /\ UNCHANGED <<soil, growth_stages, climate_etr, rainfall_data, season_months,
                   schedule, daily_etr, daily_rainfall, day_count,
                   cumulative_soil_water_deficit, max_allowable_depletion,
                   stage_idx, day, daily_climate, error, interp_vars>>

Next == Setup \/ EnterStage \/ ExitStage \/ ReadDay \/ Decide \/ Return

Spec == Init /\ [][Next]_vars

-----------------------------------------------------------------------------
(* interpolate_monthly_to_daily applied to a monthly series on its own *)

MonthLists == UNION {[1..n -> 1..12] : n \in 0..MaxMonths}
DataValues == {5, 6}

InitI ==
    /\ i_months \in MonthLists
    /\ i_data \in [1..Len(i_months) -> DataValues]
    /\ i_pc = "call"
    /\ i_result = NoResult
    /\ soil = [field_capacity |-> 30, wilting_point |-> 15, root_depth |-> 10]
    /\ growth_stages = <<>>
    /\ season_months = <<>>
    /\ climate_etr = <<>>
    /\ rainfall_data = <<>>
    /\ pc = "idle"
    /\ schedule = <<>>
    /\ daily_etr = <<>>
    /\ daily_rainfall = <<>>
    /\ day_count = 0
    /\ cumulative_soil_water_deficit = 0
    /\ max_allowable_depletion = 0
    /\ stage_idx = 0
    /\ day = 0
    /\ daily_climate = NoClimate
    /\ error = ""
    /\ returned = <<>>

\* lines 34-49: one call of interpolate_monthly_to_daily
Interpolate ==
    /\ i_pc = "call"
    /\ i_result' = interpolate_monthly_to_daily(i_data, i_months)
    /\ i_pc' = "returned"
    /\ UNCHANGED <<i_months, i_data, sched_vars>>

NextI == Interpolate

SpecI == InitI /\ [][NextI]_vars

-----------------------------------------------------------------------------
(* Vocabulary of the properties *)

RainfallCounted(rec) == IF rec.Rainfall > 0 THEN rec.Rainfall ELSE 0

\* what a recorded day adds to the water balance: max(Rainfall, 0) - kc * ETo
Balance(rec) == RainfallCounted(rec) - (rec.kc * rec.ETo) \div 2

RECURSIVE SumBalance(_, _, _)
SumBalance(s, a, b) == IF a > b THEN 0 ELSE Balance(s[b]) + SumBalance(s, a, b - 1)

\* the most recent irrigation day among days 1..k, 0 if there is none
LastIrrigation(s, k) ==
    LET Y == {j \in 1..k : s[j].IrrigationRequired = "Yes"}
    IN IF Y = {} THEN 0 ELSE CHOOSE j \in Y : \A i \in Y : i <= j

RECURSIVE DaysThrough(_, _)
\* total days of the first j growth stages
DaysThrough(st, j) == IF j = 0 THEN 0 ELSE st[j].days + DaysThrough(st, j - 1)

TotalDays == DaysThrough(growth_stages, Len(growth_stages))

\* the block of days owned by stage j when the stages are laid out in order
FirstDayOf(j) == DaysThrough(growth_stages, j - 1) + 1
LastDayOf(j) == DaysThrough(growth_stages, j)

PositiveCapacity == soil.field_capacity > soil.wilting_point /\ soil.root_depth > 0

\* both daily series were interpolated (each has at least 31 values)
Started == daily_etr # <<>>

DayRecorded == pc \in {"day", "stage", "done", "failed"} /\ Len(schedule) > 0

LastRecord == schedule[Len(schedule)]

-----------------------------------------------------------------------------
(* C1 *)

\* C1 as stated: a day is marked 'Yes' exactly when the accumulator, after the
\* day's balance was added, is above max_allowable_depletion; on such a day the
\* accumulator becomes 0 and the record's net irrigation EQUALS
\* max_allowable_depletion; on any other day the net irrigation is 0 and the
\* accumulator keeps its value.
C1_NetIrrigationIsThreshold ==
    [][(pc = "decide" /\ pc' = "day") =>
        LET pre == cumulative_soil_water_deficit
            rec == schedule'[Len(schedule')]
            trig == pre > max_allowable_depletion
        IN /\ Len(schedule') = Len(schedule) + 1
           /\ rec.IrrigationRequired = (IF trig THEN "Yes" ELSE "No")
           /\ trig => /\ cumulative_soil_water_deficit' = 0
                      /\ rec.NetIrrigation = max_allowable_depletion
           /\ ~trig => /\ cumulative_soil_water_deficit' = pre
                       /\ rec.NetIrrigation = 0]_vars

\* C1 (amended): as above, except that on an irrigation day the record's net
\* irrigation is max_allowable_depletion rounded to 2 decimal places.
C1_Trigger ==
    [][(pc = "decide" /\ pc' = "day") =>
        LET pre == cumulative_soil_water_deficit
            rec == schedule'[Len(schedule')]
            trig == pre > max_allowable_depletion
        IN /\ Len(schedule') = Len(schedule) + 1
           /\ rec.IrrigationRequired = (IF trig THEN "Yes" ELSE "No")
           /\ trig => /\ cumulative_soil_water_deficit' = 0
                      /\ rec.NetIrrigation = Round2(max_allowable_depletion)
           /\ ~trig => /\ cumulative_soil_water_deficit' = pre
                       /\ rec.NetIrrigation = 0]_vars

\* an irrigation day was just recorded after a day without irrigation, with a
\* threshold that is not a whole number of hundredths
C1_Witness ==
    /\ pc = "day"
    /\ Len(schedule) >= 2
    /\ LastRecord.IrrigationRequired = "Yes"
    /\ LastRecord.NetIrrigation = Round2(max_allowable_depletion)
    /\ Round2(max_allowable_depletion) # max_allowable_depletion
    /\ cumulative_soil_water_deficit = 0
    /\ schedule[Len(schedule) - 1].IrrigationRequired = "No"

-----------------------------------------------------------------------------
(* C2 *)

\* C2: after a day on which irrigation did not trigger, the accumulator equals
\* the sum of (effective rainfall - ETc) over the days after the most recent
\* irrigation day (from day 1 if there was none) up to that day, whatever
\* growth stages those days belong to.
C2_Accumulation ==
    (DayRecorded /\ LastRecord.IrrigationRequired = "No") =>
        cumulative_soil_water_deficit =
            SumBalance(schedule, LastIrrigation(schedule, Len(schedule)) + 1, Len(schedule))

\* days of two different stages were accumulated after an irrigation day
C2_Witness ==
    /\ DayRecorded
    /\ LastRecord.IrrigationRequired = "No"
    /\ LET li == LastIrrigation(schedule, Len(schedule))
       IN /\ li >= 1
          /\ li + 2 <= Len(schedule)
          /\ schedule[li + 1].growth_stage # LastRecord.growth_stage
    /\ cumulative_soil_water_deficit # 0

-----------------------------------------------------------------------------
(* C3 *)

SeriesTooShort == Started /\ Len(daily_etr) < TotalDays

-----------------------------------------------------------------------------
(* C7 *)

\* C7: the k-th record has day = k, holds the values at position k (index
\* k - 1) of the daily ETr and rainfall series, and carries the stage that owns
\* day k when the stages are laid out in declared order; a call that returns
\* hands back exactly one record per day, TotalDays in all; and a call fails
\* only when the series is shorter than TotalDays.
C7_OneRecordPerDay ==
    /\ Len(schedule) <= TotalDays
    /\ \A k \in 1..Len(schedule) :
          /\ schedule[k].day = k
          /\ k <= Len(daily_etr) /\ k <= Len(daily_rainfall)
          /\ schedule[k].ETo = daily_etr[k]
          /\ schedule[k].Rainfall = daily_rainfall[k]
    /\ \A j \in 1..Len(growth_stages) :
          \A k \in FirstDayOf(j)..LastDayOf(j) :
              k <= Len(schedule) =>
                  /\ schedule[k].growth_stage = growth_stages[j].name
                  /\ schedule[k].kc = growth_stages[j].kc
    /\ pc = "done" => /\ returned = schedule
                      /\ Len(returned) = TotalDays
    /\ pc = "failed" => Len(daily_etr) < TotalDays

\* a two-stage schedule was returned whose first and last day read different
\* values of the series
C7_Witness ==
    /\ pc = "done"
    /\ Len(growth_stages) = 2
    /\ Len(returned) = TotalDays
    /\ TotalDays >= 3
    /\ returned[TotalDays].growth_stage = "development"
    /\ returned[1].ETo # returned[TotalDays].ETo
    /\ returned[1].Rainfall # returned[TotalDays].Rainfall

-----------------------------------------------------------------------------
(* C8 *)

\* C8: with field_capacity > wilting_point and root_depth > 0, (a) as long as
\* every recorded day has effective rainfall <= ETc, no record is marked 'Yes'
\* and every net irrigation is 0; (b) every irrigation day is preceded, since
\* the previous irrigation day (or day 1), by a day, itself included, whose
\* effective rainfall is strictly greater than its ETc.
C8_SignConvention ==
    PositiveCapacity =>
        /\ (\A k \in 1..Len(schedule) : RainfallCounted(schedule[k]) <= schedule[k].ETc)
              => \A k \in 1..Len(schedule) :
                    /\ schedule[k].IrrigationRequired = "No"
                    /\ schedule[k].NetIrrigation = 0
        /\ \A k \in 1..Len(schedule) :
              schedule[k].IrrigationRequired = "Yes" =>
                  \E j \in (LastIrrigation(schedule, k - 1) + 1)..k :
                      RainfallCounted(schedule[j]) > schedule[j].ETc

\* a whole season without irrigation in which demand was never below rainfall
C8_Witness ==
    /\ pc = "done"
    /\ PositiveCapacity
    /\ Len(returned) >= 2
    /\ \A k \in 1..Len(returned) :
          /\ RainfallCounted(returned[k]) <= returned[k].ETc
          /\ returned[k].IrrigationRequired = "No"
    /\ cumulative_soil_water_deficit < 0

-----------------------------------------------------------------------------
(* C9 *)

\* C9: the step that reads a day adds max(Rainfall, 0) - kc * ETo to the
\* accumulator, for the values at the day's position in the series; with
\* Rainfall < 0 that is exactly -ETc, as for Rainfall = 0.
C9_NegativeRainfall ==
    [][(pc = "day" /\ pc' = "decide") =>
        LET rain == daily_rainfall[day_count]
            etc == (growth_stages[stage_idx].kc * daily_etr[day_count]) \div 2
            added == cumulative_soil_water_deficit' - cumulative_soil_water_deficit
        IN /\ added = (IF rain > 0 THEN rain ELSE 0) - etc
           /\ rain <= 0 => added = 0 - etc]_vars

\* a day with negative rainfall was just added to a non-zero accumulator
C9_Witness ==
    /\ pc = "decide"
    /\ daily_climate.Rainfall < 0
    /\ daily_climate.ETr > 0
    /\ Len(schedule) >= 1
    /\ cumulative_soil_water_deficit < 0

-----------------------------------------------------------------------------
(* C10 *)

\* C10 as stated: with field_capacity > wilting_point and root_depth > 0, the
\* value stored in every record never exceeds max_allowable_depletion, and on
\* irrigation days it is 0.
C10_StoredWithinThreshold ==
    (Started /\ PositiveCapacity) =>
        \A k \in 1..Len(schedule) :
            /\ schedule[k].CumulativeDeficit <= max_allowable_depletion
            /\ schedule[k].IrrigationRequired = "Yes" => schedule[k].CumulativeDeficit = 0

\* C10 (amended): with field_capacity > wilting_point and root_depth > 0, the
\* threshold is the positive value computed before the loop; the accumulator at
\* the end of every day never exceeds it; the value stored in the day's record
\* is that accumulator rounded to 2 decimal places, which never exceeds the
\* threshold rounded to 2 decimal places; on irrigation days it is 0.
C10_Bounded ==
    (Started /\ PositiveCapacity) =>
        /\ max_allowable_depletion = MaxAllowableDepletion(soil)
        /\ max_allowable_depletion > 0
        /\ pc # "decide" => cumulative_soil_water_deficit <= max_allowable_depletion
        /\ DayRecorded => LastRecord.CumulativeDeficit = Round2(cumulative_soil_water_deficit)
        /\ \A k \in 1..Len(schedule) :
              /\ schedule[k].CumulativeDeficit <= Round2(max_allowable_depletion)
              /\ schedule[k].IrrigationRequired = "Yes" => schedule[k].CumulativeDeficit = 0

\* a returned two-stage schedule with an irrigation day and with a day whose
\* stored value is positive
C10_Witness ==
    /\ pc = "done"
    /\ PositiveCapacity
    /\ Len(growth_stages) = 2
    /\ \E k \in 1..Len(returned) :
          returned[k].IrrigationRequired = "Yes" /\ returned[k].CumulativeDeficit = 0
    /\ \E k \in 1..Len(returned) :
          returned[k].IrrigationRequired = "No" /\ returned[k].CumulativeDeficit > 0

-----------------------------------------------------------------------------
(* Vocabulary of the interpolation properties *)

Returned == i_pc = "returned"

StrictlyIncreasing(months) ==
    \A j \in 1..(Len(months) - 1) : months[j] < months[j + 1]

ValidSeason(months) == Len(months) >= 2 /\ StrictlyIncreasing(months)

\* number of segments of the output: one per month pair, then the wraparound
Segments(months) == 1..Len(months)

\* calendar length of segment j
SegmentLength(months, j) ==
    IF j < Len(months) THEN DaysBetweenFirsts(months[j], months[j + 1])
                       ELSE DaysToYearEnd(months[j])

RECURSIVE SegmentOffset(_, _)
\* number of values before segment j
SegmentOffset(months, j) ==
    IF j = 1 THEN 0 ELSE SegmentOffset(months, j - 1) + SegmentLength(months, j - 1)

SegmentStartValue(data, j) == data[j]
SegmentEndValue(data, j) == IF j < Len(data) THEN data[j + 1] ELSE data[1]

\* the rational r equals the integer v
RationalIs(r, v) == r.num = v * r.den

-----------------------------------------------------------------------------
(* C4 *)

\* C4: for a season_months list with fewer than 2 months or not strictly
\* increasing, the call fails (the claim names the error InvalidSeriesError;
\* here any raised error counts as failing) and produces no daily series.
C4_MalformedRejected ==
    (Returned /\ ~ValidSeason(i_months)) =>
        /\ i_result.status # "ok"
        /\ i_result.data = <<>>

-----------------------------------------------------------------------------
(* C5 *)

\* C5: for a strictly increasing season of N >= 2 months the result has as
\* many values as the N - 1 month-to-month day counts plus the days from the
\* first of the last month through December 31 (275 = 30 + 245 for [4, 5]);
\* inside a segment of n days consecutive values differ by
\* (end value - start value) / n.
C5_LengthAndLinearity ==
    (Returned /\ ValidSeason(i_months)) =>
        LET N == Len(i_months)
            d == i_result.data
        IN /\ i_result.status = "ok"
           /\ Len(d) = SegmentOffset(i_months, N) + SegmentLength(i_months, N)
           /\ i_months = <<4, 5>> => Len(d) = 30 + 245
           /\ \A j \in Segments(i_months) :
                 LET n == SegmentLength(i_months, j)
                     off == SegmentOffset(i_months, j)
                 IN /\ off + n <= Len(d)
                    /\ \A k \in 1..(n - 1) :
                          /\ d[off + k].den = n
                          /\ d[off + k + 1].den = n
                          /\ d[off + k + 1].num - d[off + k].num =
                                SegmentEndValue(i_data, j) - SegmentStartValue(i_data, j)

\* the season [4, 5] with rising values was interpolated
C5_Witness ==
    /\ Returned
    /\ i_months = <<4, 5>>
    /\ i_data = <<5, 6>>
    /\ i_result.status = "ok"
    /\ Len(i_result.data) = 275

-----------------------------------------------------------------------------
(* C6 *)

\* C6 as stated: in every segment of a valid season the first value is the
\* segment's start value and no value of the segment equals the segment's end
\* value.
C6_EndValueNeverIncluded ==
    (Returned /\ ValidSeason(i_months)) =>
        LET d == i_result.data IN
        \A j \in Segments(i_months) :
            LET n == SegmentLength(i_months, j)
                off == SegmentOffset(i_months, j)
            IN /\ off + n <= Len(d)
               /\ RationalIs(d[off + 1], SegmentStartValue(i_data, j))
               /\ \A k \in 1..n : ~RationalIs(d[off + k], SegmentEndValue(i_data, j))

\* C6 (amended): in every segment of a valid season the first value is the
\* segment's start value, and no value of the segment equals the segment's end
\* value when the end value differs from the start value; when the two are
\* equal every value of the segment equals them.
C6_LeftClosedRightOpen ==
    (Returned /\ ValidSeason(i_months)) =>
        LET d == i_result.data IN
        \A j \in Segments(i_months) :
            LET n == SegmentLength(i_months, j)
                off == SegmentOffset(i_months, j)
                a == SegmentStartValue(i_data, j)
                b == SegmentEndValue(i_data, j)
            IN /\ off + n <= Len(d)
               /\ RationalIs(d[off + 1], a)
               /\ a # b => \A k \in 1..n : ~RationalIs(d[off + k], b)
               /\ a = b => \A k \in 1..n : RationalIs(d[off + k], b)

\* a valid season whose month-pair segment and wraparound segment both join
\* different values
C6_Witness ==
    /\ Returned
    /\ ValidSeason(i_months)
    /\ i_result.status = "ok"
    /\ i_data[1] # i_data[2]
    /\ Len(i_months) = 2
    /\ RationalIs(i_result.data[1], i_data[1])
    /\ ~RationalIs(i_result.data[Len(i_result.data)], i_data[1])

====
